---------------------------- MODULE Spec2Model ----------------------------
(***************************************************************************)
(* Model of src/services/strands/recommendation_agent.py:                  *)
(*   - analyze_historical_patterns  (the pattern aggregator),              *)
(*   - get_best_practices           (the best-practices lookup),           *)
(*   - lambda_handler               (the request handler).                 *)
(* Python dicts are functions over the keys that are present, Python lists *)
(* are sequences, and an insertion-ordered dict that the code iterates is  *)
(* a sequence of [key, value] entries in insertion order.                  *)
(***************************************************************************)
EXTENDS Integers, Sequences, FiniteSets, TLC

VARIABLES
    alerts,        \* analyze_historical_patterns: the argument `alerts`
    agg_pc,        \* "input" | "analyzed" | "permuted"
    agg_result,    \* the dict returned for `alerts`
    perm_alerts,   \* a reordering of `alerts`
    perm_result,   \* the dict returned for `perm_alerts`
    bp_event_type, \* get_best_practices: the argument `event_type`
    bp_sub_type,   \* the argument `sub_type`: {} for None, {str} otherwise
    practices,     \* what get_best_practices returned or raised
    h_pc,          \* lambda_handler, per invocation: the position in the code
    event,         \* the argument `event`
    current_alert, \* the local `current_alert`
    prompt,        \* the local `prompt`
    outcome,       \* what agent(prompt) did: returned a text or raised
    response,      \* the responses returned by the invocation
    steps,         \* history: the checks and calls the invocation made
    agent_input    \* history: the prompts the agent got from the invocation

aggVars == <<alerts, agg_pc, agg_result, perm_alerts, perm_result>>
lookupVars == <<bp_event_type, bp_sub_type, practices>>
handlerVars == <<h_pc, event, current_alert, prompt, outcome, response, steps,
                 agent_input>>
vars == <<aggVars, lookupVars, handlerVars>>

(***************************************************************************)
(* Bounds of the model.                                                    *)
(***************************************************************************)
MaxAlerts == 2
MaxMentions == 4
MaxRecords == 4
MaxOrderAlerts == 3
MaxReplyLen == 5
MaxConcurrentReplyLen == 2

\* Values standing for "nothing returned yet".
Pending == [pending |-> TRUE]

\* dict.get(key, default)
Get(d, key, default) == IF key \in DOMAIN d THEN d[key] ELSE default

\* Inputs of the aggregator.
ActionNames == {"evacuate", "shelter", "secure", "notify"}
ActionEventTypes == {"weather"}
SeverityEventTypes == {"weather", "unknown"}
Severities == {2, 6}
OrderSeverities == {6}
OrderLists == {<<"evacuate", "shelter">>, <<"secure", "notify">>, <<"secure">>}

SeqsUpTo(S, n) == UNION {[1..m -> S] : m \in 0..n}

RECURSIVE SumLens(_)
SumLens(as) ==
    IF as = <<>> THEN 0
    ELSE Len(Get(Head(as), "effectiveActions", <<>>)) + SumLens(Tail(as))

(***************************************************************************)
(* analyze_historical_patterns, lines 22-81.                               *)
(***************************************************************************)

\* lines 40-44: one iteration of the grouping loop over the ordered dict
\* alert_types (a sequence of [key, value] entries).
GroupAlert(alert_types, alert) ==
    LET event_type == Get(alert, "eventType", "unknown")
    IN  IF \E i \in DOMAIN alert_types : alert_types[i].key = event_type
        THEN [i \in DOMAIN alert_types |->
                 IF alert_types[i].key = event_type
                 THEN [key |-> event_type,
                       value |-> Append(alert_types[i].value, alert)]
                 ELSE alert_types[i]]
        ELSE Append(alert_types, [key |-> event_type, value |-> <<alert>>])

\* lines 39-44: the grouping loop.
RECURSIVE GroupAlerts(_, _)
GroupAlerts(alert_types, as) ==
    IF as = <<>> THEN alert_types
    ELSE GroupAlerts(GroupAlert(alert_types, Head(as)), Tail(as))

\* lines 55-57: one increment of actions_count.
CountAction(actions_count, action) ==
    IF \E i \in DOMAIN actions_count : actions_count[i].key = action
    THEN [i \in DOMAIN actions_count |->
             IF actions_count[i].key = action
             THEN [key |-> action, value |-> actions_count[i].value + 1]
             ELSE actions_count[i]]
    ELSE Append(actions_count, [key |-> action, value |-> 0 + 1])

\* line 54: the inner loop over one alert's effectiveActions.
RECURSIVE CountActions(_, _)
CountActions(actions_count, actions) ==
    IF actions = <<>> THEN actions_count
    ELSE CountActions(CountAction(actions_count, Head(actions)), Tail(actions))

\* lines 52-57: the loop over the alerts of one type.
RECURSIVE CountTypeAlerts(_, _)
CountTypeAlerts(actions_count, type_alerts) ==
    IF type_alerts = <<>> THEN actions_count
    ELSE CountTypeAlerts(
             CountActions(actions_count,
                          Get(Head(type_alerts), "effectiveActions", <<>>)),
             Tail(type_alerts))

\* A sort that puts an item before the items of equal count.
InsertBeforeTies(sorted, item) ==
    LET ahead == {i \in DOMAIN sorted : sorted[i].value > item.value}
        k == Cardinality(ahead)
    IN  SubSeq(sorted, 1, k) \o <<item>> \o SubSeq(sorted, k + 1, Len(sorted))

\* sorted(..., key=count, reverse=True) is stable: an item goes after every
\* item whose count is at least its own.
InsertByCount(sorted, item) ==
    LET ahead == {i \in DOMAIN sorted : sorted[i].value >= item.value}
        k == Cardinality(ahead)
    IN  SubSeq(sorted, 1, k) \o <<item>> \o SubSeq(sorted, k + 1, Len(sorted))

\* line 60
RECURSIVE SortedByCount(_, _)
SortedByCount(sorted, items) ==
    IF items = <<>> THEN sorted
    ELSE SortedByCount(InsertByCount(sorted, Head(items)), Tail(items))

\* A slice that keeps two entries.
TopTwoSlice(top_actions) ==
    SubSeq(top_actions, 1, IF Len(top_actions) < 2 THEN Len(top_actions) ELSE 2)

\* line 61: top_actions[:3]
TopSlice(top_actions) ==
    SubSeq(top_actions, 1, IF Len(top_actions) < 3 THEN Len(top_actions) ELSE 3)

\* The ratio without the cap.
UncappedConfidence(count, n) == [num |-> count, den |-> n]

\* line 66: min(count / len(type_alerts), 0.95) as a fraction num/den.
Confidence(count, n) ==
    IF count * 20 <= 19 * n
    THEN [num |-> count, den |-> n]
    ELSE [num |-> 19, den |-> 20]

\* lines 60-67: the entries appended to effective_actions for one type.
TypeEffectiveActions(event_type, type_alerts) ==
    LET actions_count == CountTypeAlerts(<<>>, type_alerts)
        top_actions == SortedByCount(<<>>, actions_count)
        top == TopSlice(top_actions)
    IN  [i \in DOMAIN top |->
            [action |-> top[i].key,
             eventType |-> event_type,
             frequency |-> top[i].value,
             confidence |-> Confidence(top[i].value, Len(type_alerts))]]

RECURSIVE SumSeverity(_)
SumSeverity(type_alerts) ==
    IF type_alerts = <<>> THEN 0
    ELSE Get(Head(type_alerts), "severity", 0) + SumSeverity(Tail(type_alerts))

\* line 74: sum(a.get("severity", 0) ...) / len(type_alerts) as a fraction.
AverageSeverity(type_alerts) ==
    [num |-> SumSeverity(type_alerts), den |-> Len(type_alerts)]

\* A PatternSummary from two records on.
TypePatternsFromTwo(event_type, type_alerts) ==
    IF Len(type_alerts) >= 2
    THEN << [eventType |-> event_type,
             count |-> Len(type_alerts),
             averageSeverity |-> AverageSeverity(type_alerts),
             description |-> <<"Pattern of ", event_type,
                               " alerts identified with ", Len(type_alerts),
                               " occurrences">>] >>
    ELSE <<>>

\* lines 70-76: the entries appended to patterns for one type.
TypePatterns(event_type, type_alerts) ==
    IF Len(type_alerts) >= 3
    THEN << [eventType |-> event_type,
             count |-> Len(type_alerts),
             averageSeverity |-> AverageSeverity(type_alerts),
             description |-> <<"Pattern of ", event_type,
                               " alerts identified with ", Len(type_alerts),
                               " occurrences">>] >>
    ELSE <<>>

\* lines 47-76: the loop over alert_types.items().
RECURSIVE CollectTypes(_, _)
CollectTypes(acc, alert_types) ==
    IF alert_types = <<>> THEN acc
    ELSE LET e == Head(alert_types)
         IN  CollectTypes(
                 [patterns |-> acc.patterns \o TypePatterns(e.key, e.value),
                  effective_actions |->
                      acc.effective_actions \o TypeEffectiveActions(e.key, e.value)],
                 Tail(alert_types))

analyze_historical_patterns(as) ==
    IF as = <<>>
    THEN [patterns |-> <<>>, effective_actions |-> <<>>]
    ELSE CollectTypes([patterns |-> <<>>, effective_actions |-> <<>>],
                      GroupAlerts(<<>>, as))

(***************************************************************************)
(* The aggregator applied to bounded inputs.                               *)
(***************************************************************************)
\* The invocations that may be in flight in one process.
Calls == {"call_1", "call_2"}
Unset == [type |-> "unset"]

\* No tool has been called and no invocation is in flight.
Init ==
    /\ alerts = <<>>
    /\ agg_pc = "input"
    /\ agg_result = Pending
    /\ perm_alerts = <<>>
    /\ perm_result = Pending
    /\ bp_event_type = <<>>
    /\ bp_sub_type = {}
    /\ practices = Pending
    /\ h_pc = [c \in Calls |-> "idle"]
    /\ event = [c \in Calls |-> Unset]
    /\ current_alert = [c \in Calls |-> Unset]
    /\ prompt = [c \in Calls |-> Unset]
    /\ outcome = [c \in Calls |-> Unset]
    /\ response = [c \in Calls |-> <<>>]
    /\ steps = [c \in Calls |-> <<>>]
    /\ agent_input = [c \in Calls |-> <<>>]

\* A historical alert whose optional keys are present or not.
MakeAlert(et, sev, acts) ==
    [k \in ({"eventType" : x \in et} \cup {"severity" : x \in sev}
              \cup {"effectiveActions" : x \in acts}) |->
        CASE k = "eventType" -> CHOOSE x \in et : TRUE
          [] k = "severity" -> CHOOSE x \in sev : TRUE
          [] k = "effectiveActions" -> CHOOSE x \in acts : TRUE]

Optional(S) == {{}} \cup {{x} : x \in S}

\* The caller appends a record that carries effective actions; the strings
\* mentioned over the whole input number at most MaxMentions.
AddActionAlert ==
    /\ agg_pc = "input"
    /\ Len(alerts) < MaxAlerts
    /\ \E et \in Optional(ActionEventTypes),
          acts \in Optional(SeqsUpTo(ActionNames, MaxMentions - SumLens(alerts))) :
          alerts' = Append(alerts, MakeAlert(et, {}, acts))
    /\ UNCHANGED <<agg_pc, agg_result, perm_alerts, perm_result, lookupVars, handlerVars>>

\* The caller appends a record that carries a severity.
AddSeverityAlert ==
    /\ agg_pc = "input"
    /\ Len(alerts) < MaxRecords
    /\ \E et \in Optional(SeverityEventTypes), sev \in Optional(Severities) :
          alerts' = Append(alerts, MakeAlert(et, sev, {}))
    /\ UNCHANGED <<agg_pc, agg_result, perm_alerts, perm_result, lookupVars, handlerVars>>

\* The caller appends a record with a severity and one of a few action lists.
AddOrderAlert ==
    /\ agg_pc = "input"
    /\ Len(alerts) < MaxOrderAlerts
    /\ \E et \in Optional(ActionEventTypes), sev \in Optional(OrderSeverities),
          acts \in Optional(OrderLists) :
          alerts' = Append(alerts, MakeAlert(et, sev, acts))
    /\ UNCHANGED <<agg_pc, agg_result, perm_alerts, perm_result, lookupVars, handlerVars>>

\* The tool is called with the records collected so far.
Analyze ==
    /\ agg_pc = "input"
    /\ agg_result' = analyze_historical_patterns(alerts)
    /\ agg_pc' = "analyzed"
    /\ UNCHANGED <<alerts, perm_alerts, perm_result, lookupVars, handlerVars>>

\* The tool is called with the same records in another order.
AnalyzePermuted ==
    /\ agg_pc = "analyzed"
    /\ \E p \in Permutations(DOMAIN alerts) :
          /\ perm_alerts' = [i \in DOMAIN alerts |-> alerts[p[i]]]
          /\ perm_result' = analyze_historical_patterns(perm_alerts')
    /\ agg_pc' = "permuted"
    /\ UNCHANGED <<alerts, agg_result, lookupVars, handlerVars>>

ActionsNext == AddActionAlert \/ Analyze
SpecActions == Init /\ [][ActionsNext]_vars

PatternsNext == AddSeverityAlert \/ Analyze
SpecPatterns == Init /\ [][PatternsNext]_vars

OrderNext == AddOrderAlert \/ Analyze \/ AnalyzePermuted
SpecOrder == Init /\ [][OrderNext]_vars

(***************************************************************************)
(* get_best_practices, lines 84-182.  A str is the sequence of its         *)
(* characters, so that str.lower() is computed character by character.     *)
(***************************************************************************)
UpperToLower ==
    ("A" :> "a") @@ ("B" :> "b") @@ ("C" :> "c") @@ ("D" :> "d") @@ ("E" :> "e")
    @@ ("F" :> "f") @@ ("G" :> "g") @@ ("H" :> "h") @@ ("I" :> "i") @@ ("J" :> "j")
    @@ ("K" :> "k") @@ ("L" :> "l") @@ ("M" :> "m") @@ ("N" :> "n") @@ ("O" :> "o")
    @@ ("P" :> "p") @@ ("Q" :> "q") @@ ("R" :> "r") @@ ("S" :> "s") @@ ("T" :> "t")
    @@ ("U" :> "u") @@ ("V" :> "v") @@ ("W" :> "w") @@ ("X" :> "x") @@ ("Y" :> "y")
    @@ ("Z" :> "z")

LowerChar(c) == IF c \in DOMAIN UpperToLower THEN UpperToLower[c] ELSE c
UpperChar(c) ==
    IF \E u \in DOMAIN UpperToLower : UpperToLower[u] = c
    THEN CHOOSE u \in DOMAIN UpperToLower : UpperToLower[u] = c
    ELSE c

\* str.lower()
lower(str) == [i \in DOMAIN str |-> LowerChar(str[i])]
\* str.upper() and str.capitalize(), which the callers' spellings are made of
upper(str) == [i \in DOMAIN str |-> UpperChar(str[i])]
capitalize(str) ==
    [i \in DOMAIN str |-> IF i = 1 THEN UpperChar(str[i]) ELSE LowerChar(str[i])]

Str_weather == <<"w", "e", "a", "t", "h", "e", "r">>
Str_earthquake == <<"e", "a", "r", "t", "h", "q", "u", "a", "k", "e">>
Str_health == <<"h", "e", "a", "l", "t", "h">>
Str_security == <<"s", "e", "c", "u", "r", "i", "t", "y">>
Str_default == <<"d", "e", "f", "a", "u", "l", "t">>
Str_hurricane == <<"h", "u", "r", "r", "i", "c", "a", "n", "e">>
Str_tornado == <<"t", "o", "r", "n", "a", "d", "o">>
Str_flood == <<"f", "l", "o", "o", "d">>
Str_epidemic == <<"e", "p", "i", "d", "e", "m", "i", "c">>
Str_wildfire == <<"w", "i", "l", "d", "f", "i", "r", "e">>
Str_blizzard == <<"b", "l", "i", "z", "z", "a", "r", "d">>

\* lines 98-163: the lists of the nested dicts
HurricanePractices ==
    << <<"E", "v", "a", "c", "u", "a", "t", "e", " ", "i", "f", " ", "d", "i",
          "r", "e", "c", "t", "e", "d", " ", "b", "y", " ", "l", "o", "c", "a",
          "l", " ", "a", "u", "t", "h", "o", "r", "i", "t", "i", "e", "s">>,
       <<"S", "e", "c", "u", "r", "e", " ", "o", "u", "t", "d", "o", "o", "r",
          " ", "o", "b", "j", "e", "c", "t", "s", " ", "t", "h", "a", "t", " ",
          "c", "o", "u", "l", "d", " ", "b", "e", "c", "o", "m", "e", " ", "p",
          "r", "o", "j", "e", "c", "t", "i", "l", "e", "s">>,
       <<"P", "r", "e", "p", "a", "r", "e", " ", "e", "m", "e", "r", "g", "e",
          "n", "c", "y", " ", "s", "u", "p", "p", "l", "i", "e", "s", " ", "i",
          "n", "c", "l", "u", "d", "i", "n", "g", " ", "f", "o", "o", "d", ",",
          " ", "w", "a", "t", "e", "r", ",", " ", "a", "n", "d", " ", "m", "e",
          "d", "i", "c", "a", "t", "i", "o", "n", "s">>,
       <<"S", "t", "a", "y", " ", "a", "w", "a", "y", " ", "f", "r", "o", "m",
          " ", "w", "i", "n", "d", "o", "w", "s", " ", "d", "u", "r", "i", "n",
          "g", " ", "t", "h", "e", " ", "s", "t", "o", "r", "m">>,
       <<"M", "o", "n", "i", "t", "o", "r", " ", "N", "O", "A", "A", " ", "W",
          "e", "a", "t", "h", "e", "r", " ", "R", "a", "d", "i", "o", " ", "f",
          "o", "r", " ", "u", "p", "d", "a", "t", "e", "s">> >>
TornadoPractices ==
    << <<"M", "o", "v", "e", " ", "t", "o", " ", "a", "n", " ", "i", "n", "t",
          "e", "r", "i", "o", "r", " ", "r", "o", "o", "m", " ", "o", "n", " ",
          "t", "h", "e", " ", "l", "o", "w", "e", "s", "t", " ", "f", "l", "o",
          "o", "r">>,
       <<"S", "t", "a", "y", " ", "a", "w", "a", "y", " ", "f", "r", "o", "m",
          " ", "w", "i", "n", "d", "o", "w", "s">>,
       <<"C", "o", "v", "e", "r", " ", "y", "o", "u", "r", " ", "h", "e", "a",
          "d", " ", "a", "n", "d", " ", "n", "e", "c", "k">>,
       <<"M", "o", "n", "i", "t", "o", "r", " ", "l", "o", "c", "a", "l", " ",
          "w", "e", "a", "t", "h", "e", "r", " ", "a", "l", "e", "r", "t", "s">>,
       <<"H", "a", "v", "e", " ", "e", "m", "e", "r", "g", "e", "n", "c", "y",
          " ", "s", "u", "p", "p", "l", "i", "e", "s", " ", "r", "e", "a", "d",
          "y">> >>
FloodPractices ==
    << <<"M", "o", "v", "e", " ", "t", "o", " ", "h", "i", "g", "h", "e", "r",
          " ", "g", "r", "o", "u", "n", "d", " ", "i", "m", "m", "e", "d", "i",
          "a", "t", "e", "l", "y">>,
       <<"D", "o", " ", "n", "o", "t", " ", "w", "a", "l", "k", ",", " ", "s",
          "w", "i", "m", ",", " ", "o", "r", " ", "d", "r", "i", "v", "e", " ",
          "t", "h", "r", "o", "u", "g", "h", " ", "f", "l", "o", "o", "d", " ",
          "w", "a", "t", "e", "r", "s">>,
       <<"S", "t", "a", "y", " ", "o", "f", "f", " ", "b", "r", "i", "d", "g",
          "e", "s", " ", "o", "v", "e", "r", " ", "f", "a", "s", "t", "-", "m",
          "o", "v", "i", "n", "g", " ", "w", "a", "t", "e", "r">>,
       <<"E", "v", "a", "c", "u", "a", "t", "e", " ", "i", "f", " ", "t", "o",
          "l", "d", " ", "t", "o", " ", "d", "o", " ", "s", "o">>,
       <<"P", "r", "e", "p", "a", "r", "e", " ", "e", "m", "e", "r", "g", "e",
          "n", "c", "y", " ", "s", "u", "p", "p", "l", "i", "e", "s">> >>
WeatherDefaultPractices ==
    << <<"S", "t", "a", "y", " ", "i", "n", "f", "o", "r", "m", "e", "d", " ",
          "t", "h", "r", "o", "u", "g", "h", " ", "o", "f", "f", "i", "c", "i",
          "a", "l", " ", "w", "e", "a", "t", "h", "e", "r", " ", "c", "h", "a",
          "n", "n", "e", "l", "s">>,
       <<"P", "r", "e", "p", "a", "r", "e", " ", "e", "m", "e", "r", "g", "e",
          "n", "c", "y", " ", "s", "u", "p", "p", "l", "i", "e", "s">>,
       <<"F", "o", "l", "l", "o", "w", " ", "e", "v", "a", "c", "u", "a", "t",
          "i", "o", "n", " ", "o", "r", "d", "e", "r", "s", " ", "i", "f", " ",
          "i", "s", "s", "u", "e", "d">>,
       <<"S", "e", "c", "u", "r", "e", " ", "y", "o", "u", "r", " ", "p", "r",
          "o", "p", "e", "r", "t", "y", " ", "i", "f", " ", "t", "i", "m", "e",
          " ", "a", "l", "l", "o", "w", "s">>,
       <<"H", "a", "v", "e", " ", "a", " ", "c", "o", "m", "m", "u", "n", "i",
          "c", "a", "t", "i", "o", "n", " ", "p", "l", "a", "n", " ", "w", "i",
          "t", "h", " ", "f", "a", "m", "i", "l", "y", " ", "m", "e", "m", "b",
          "e", "r", "s">> >>
EarthquakeDefaultPractices ==
    << <<"D", "r", "o", "p", ",", " ", "c", "o", "v", "e", "r", ",", " ", "a",
          "n", "d", " ", "h", "o", "l", "d", " ", "o", "n">>,
       <<"I", "f", " ", "i", "n", "d", "o", "o", "r", "s", ",", " ", "s", "t",
          "a", "y", " ", "a", "w", "a", "y", " ", "f", "r", "o", "m", " ", "w",
          "i", "n", "d", "o", "w", "s", " ", "a", "n", "d", " ", "e", "x", "t",
          "e", "r", "i", "o", "r", " ", "w", "a", "l", "l", "s">>,
       <<"I", "f", " ", "o", "u", "t", "d", "o", "o", "r", "s", ",", " ", "m",
          "o", "v", "e", " ", "t", "o", " ", "a", "n", " ", "o", "p", "e", "n",
          " ", "a", "r", "e", "a", " ", "a", "w", "a", "y", " ", "f", "r", "o",
          "m", " ", "b", "u", "i", "l", "d", "i", "n", "g", "s", " ", "a", "n",
          "d", " ", "p", "o", "w", "e", "r", " ", "l", "i", "n", "e", "s">>,
       <<"B", "e", " ", "p", "r", "e", "p", "a", "r", "e", "d", " ", "f", "o",
          "r", " ", "a", "f", "t", "e", "r", "s", "h", "o", "c", "k", "s">>,
       <<"C", "h", "e", "c", "k", " ", "f", "o", "r", " ", "i", "n", "j", "u",
          "r", "i", "e", "s", " ", "a", "n", "d", " ", "d", "a", "m", "a", "g",
          "e", " ", "a", "f", "t", "e", "r", " ", "s", "h", "a", "k", "i", "n",
          "g", " ", "s", "t", "o", "p", "s">>,
       <<"L", "i", "s", "t", "e", "n", " ", "t", "o", " ", "e", "m", "e", "r",
          "g", "e", "n", "c", "y", " ", "r", "a", "d", "i", "o", " ", "f", "o",
          "r", " ", "i", "n", "s", "t", "r", "u", "c", "t", "i", "o", "n", "s">> >>
EpidemicPractices ==
    << <<"F", "o", "l", "l", "o", "w", " ", "p", "u", "b", "l", "i", "c", " ",
          "h", "e", "a", "l", "t", "h", " ", "g", "u", "i", "d", "e", "l", "i",
          "n", "e", "s">>,
       <<"P", "r", "a", "c", "t", "i", "c", "e", " ", "g", "o", "o", "d", " ",
          "h", "y", "g", "i", "e", "n", "e", " ", "i", "n", "c", "l", "u", "d",
          "i", "n", "g", " ", "f", "r", "e", "q", "u", "e", "n", "t", " ", "h",
          "a", "n", "d", "w", "a", "s", "h", "i", "n", "g">>,
       <<"M", "a", "i", "n", "t", "a", "i", "n", " ", "s", "o", "c", "i", "a",
          "l", " ", "d", "i", "s", "t", "a", "n", "c", "i", "n", "g", " ", "a",
          "s", " ", "r", "e", "c", "o", "m", "m", "e", "n", "d", "e", "d">>,
       <<"W", "e", "a", "r", " ", "a", "p", "p", "r", "o", "p", "r", "i", "a",
          "t", "e", " ", "p", "r", "o", "t", "e", "c", "t", "i", "v", "e", " ",
          "e", "q", "u", "i", "p", "m", "e", "n", "t", " ", "i", "f", " ", "a",
          "d", "v", "i", "s", "e", "d">>,
       <<"S", "t", "a", "y", " ", "h", "o", "m", "e", " ", "i", "f", " ", "y",
          "o", "u", " ", "d", "e", "v", "e", "l", "o", "p", " ", "s", "y", "m",
          "p", "t", "o", "m", "s">>,
       <<"S", "e", "e", "k", " ", "m", "e", "d", "i", "c", "a", "l", " ", "a",
          "t", "t", "e", "n", "t", "i", "o", "n", " ", "i", "f", " ", "s", "y",
          "m", "p", "t", "o", "m", "s", " ", "w", "o", "r", "s", "e", "n">> >>
HealthDefaultPractices ==
    << <<"F", "o", "l", "l", "o", "w", " ", "g", "u", "i", "d", "a", "n", "c",
          "e", " ", "f", "r", "o", "m", " ", "h", "e", "a", "l", "t", "h", " ",
          "a", "u", "t", "h", "o", "r", "i", "t", "i", "e", "s">>,
       <<"M", "a", "i", "n", "t", "a", "i", "n", " ", "p", "r", "o", "p", "e",
          "r", " ", "h", "y", "g", "i", "e", "n", "e", " ", "p", "r", "a", "c",
          "t", "i", "c", "e", "s">>,
       <<"S", "t", "a", "y", " ", "i", "n", "f", "o", "r", "m", "e", "d", " ",
          "t", "h", "r", "o", "u", "g", "h", " ", "o", "f", "f", "i", "c", "i",
          "a", "l", " ", "h", "e", "a", "l", "t", "h", " ", "c", "h", "a", "n",
          "n", "e", "l", "s">>,
       <<"P", "r", "e", "p", "a", "r", "e", " ", "n", "e", "c", "e", "s", "s",
          "a", "r", "y", " ", "m", "e", "d", "i", "c", "a", "t", "i", "o", "n",
          "s", " ", "a", "n", "d", " ", "s", "u", "p", "p", "l", "i", "e", "s">>,
       <<"H", "a", "v", "e", " ", "e", "m", "e", "r", "g", "e", "n", "c", "y",
          " ", "c", "o", "n", "t", "a", "c", "t", "s", " ", "r", "e", "a", "d",
          "i", "l", "y", " ", "a", "v", "a", "i", "l", "a", "b", "l", "e">> >>
SecurityDefaultPractices ==
    << <<"F", "o", "l", "l", "o", "w", " ", "i", "n", "s", "t", "r", "u", "c",
          "t", "i", "o", "n", "s", " ", "f", "r", "o", "m", " ", "a", "u", "t",
          "h", "o", "r", "i", "t", "i", "e", "s">>,
       <<"A", "v", "o", "i", "d", " ", "t", "h", "e", " ", "a", "f", "f", "e",
          "c", "t", "e", "d", " ", "a", "r", "e", "a">>,
       <<"R", "e", "p", "o", "r", "t", " ", "s", "u", "s", "p", "i", "c", "i",
          "o", "u", "s", " ", "a", "c", "t", "i", "v", "i", "t", "y", " ", "t",
          "o", " ", "a", "u", "t", "h", "o", "r", "i", "t", "i", "e", "s">>,
       <<"S", "t", "a", "y", " ", "i", "n", "f", "o", "r", "m", "e", "d", " ",
          "t", "h", "r", "o", "u", "g", "h", " ", "o", "f", "f", "i", "c", "i",
          "a", "l", " ", "c", "h", "a", "n", "n", "e", "l", "s">>,
       <<"H", "a", "v", "e", " ", "a", "n", " ", "e", "m", "e", "r", "g", "e",
          "n", "c", "y", " ", "p", "l", "a", "n", " ", "a", "n", "d", " ", "s",
          "u", "p", "p", "l", "i", "e", "s", " ", "r", "e", "a", "d", "y">> >>

\* lines 164-170: the strings of the list under the top-level key "default"
Str_default_1 ==
    <<"S", "t", "a", "y", " ", "i", "n", "f", "o", "r", "m", "e", "d", " ",
      "t", "h", "r", "o", "u", "g", "h", " ", "o", "f", "f", "i", "c", "i",
      "a", "l", " ", "c", "h", "a", "n", "n", "e", "l", "s">>
Str_default_2 ==
    <<"F", "o", "l", "l", "o", "w", " ", "i", "n", "s", "t", "r", "u", "c",
      "t", "i", "o", "n", "s", " ", "f", "r", "o", "m", " ", "a", "u", "t",
      "h", "o", "r", "i", "t", "i", "e", "s">>
Str_default_3 ==
    <<"H", "a", "v", "e", " ", "e", "m", "e", "r", "g", "e", "n", "c", "y",
      " ", "s", "u", "p", "p", "l", "i", "e", "s", " ", "r", "e", "a", "d",
      "y">>
Str_default_4 ==
    <<"D", "e", "v", "e", "l", "o", "p", " ", "a", "n", "d", " ", "p", "r",
      "a", "c", "t", "i", "c", "e", " ", "a", "n", " ", "e", "m", "e", "r",
      "g", "e", "n", "c", "y", " ", "p", "l", "a", "n">>
Str_default_5 ==
    <<"H", "e", "l", "p", " ", "n", "e", "i", "g", "h", "b", "o", "r", "s",
      " ", "w", "h", "o", " ", "m", "a", "y", " ", "n", "e", "e", "d", " ",
      "a", "s", "s", "i", "s", "t", "a", "n", "c", "e">>
DefaultPractices ==
    <<Str_default_1, Str_default_2, Str_default_3, Str_default_4, Str_default_5>>

\* A dict and a list, the two kinds of value in best_practices.
Dict(items) == [kind |-> "dict", items |-> items]
List(items) == [kind |-> "list", items |-> items]

\* lines 97-171
best_practices ==
    Dict([k \in {Str_weather, Str_earthquake, Str_health, Str_security, Str_default} |->
        CASE k = Str_weather ->
               Dict([j \in {Str_hurricane, Str_tornado, Str_flood, Str_default} |->
                   CASE j = Str_hurricane -> List(HurricanePractices)
                     [] j = Str_tornado -> List(TornadoPractices)
                     [] j = Str_flood -> List(FloodPractices)
                     [] j = Str_default -> List(WeatherDefaultPractices)])
          [] k = Str_earthquake ->
               Dict([j \in {Str_default} |-> List(EarthquakeDefaultPractices)])
          [] k = Str_health ->
               Dict([j \in {Str_epidemic, Str_default} |->
                   CASE j = Str_epidemic -> List(EpidemicPractices)
                     [] j = Str_default -> List(HealthDefaultPractices)])
          [] k = Str_security ->
               Dict([j \in {Str_default} |-> List(SecurityDefaultPractices)])
          [] k = Str_default -> List(DefaultPractices)])

\* `x in container`: a key of a dict, an element of a list.
Contains(container, x) ==
    IF container.kind = "dict"
    THEN x \in DOMAIN container.items
    ELSE \E i \in DOMAIN container.items : container.items[i] = x

Returned(list) == [ok |-> TRUE, value |-> list.items]
Raised(error) == [ok |-> FALSE, error |-> error]

\* `container[x]`: a list cannot be indexed by a str.
Subscript(container, x) ==
    IF container.kind = "dict" THEN Returned(container.items[x]) ELSE Raised("TypeError")

\* A lookup that forgets to lower-case the sub-type.
get_best_practices_exact_sub_type(event_type, sub_type) ==
    IF Contains(best_practices, lower(event_type))
    THEN LET type_practices == best_practices.items[lower(event_type)]
         IN  IF sub_type # {} /\ sub_type # {<<>>}
                /\ Contains(type_practices, CHOOSE x \in sub_type : TRUE)
             THEN Subscript(type_practices, CHOOSE x \in sub_type : TRUE)
             ELSE IF Contains(type_practices, Str_default)
                  THEN Subscript(type_practices, Str_default)
                  ELSE Returned(best_practices.items[Str_default])
    ELSE Returned(best_practices.items[Str_default])

\* lines 173-182; sub_type is {} for None and {str} otherwise.
get_best_practices(event_type, sub_type) ==
    IF Contains(best_practices, lower(event_type))
    THEN LET type_practices == best_practices.items[lower(event_type)]
         IN  IF sub_type # {} /\ sub_type # {<<>>}
                /\ Contains(type_practices, lower(CHOOSE x \in sub_type : TRUE))
             THEN Subscript(type_practices, lower(CHOOSE x \in sub_type : TRUE))
             ELSE IF Contains(type_practices, Str_default)
                  THEN Subscript(type_practices, Str_default)
                  ELSE Returned(best_practices.items[Str_default])
    ELSE Returned(best_practices.items[Str_default])

\* The spellings a caller may use for a word.
Spellings(words) == UNION {{w, capitalize(w), upper(w)} : w \in words}

EventTypeInputs ==
    Spellings({Str_weather, Str_earthquake, Str_health, Str_security,
               Str_default, Str_wildfire})

SubTypeInputs ==
    Spellings({Str_hurricane, Str_tornado, Str_flood, Str_epidemic,
               Str_default, Str_blizzard, Str_default_3})
      \cup {<<>>, Str_default_3}

\* The agent is about to call the tool with some spelling of the two keys.
LookupInit ==
    /\ bp_event_type \in EventTypeInputs
    /\ bp_sub_type \in Optional(SubTypeInputs)
    /\ practices = Pending
    /\ alerts = <<>>
    /\ agg_pc = "input"
    /\ agg_result = Pending
    /\ perm_alerts = <<>>
    /\ perm_result = Pending
    /\ h_pc = [c \in Calls |-> "idle"]
    /\ event = [c \in Calls |-> Unset]
    /\ current_alert = [c \in Calls |-> Unset]
    /\ prompt = [c \in Calls |-> Unset]
    /\ outcome = [c \in Calls |-> Unset]
    /\ response = [c \in Calls |-> <<>>]
    /\ steps = [c \in Calls |-> <<>>]
    /\ agent_input = [c \in Calls |-> <<>>]

Lookup ==
    /\ practices = Pending
    /\ practices' = get_best_practices(bp_event_type, bp_sub_type)
    /\ UNCHANGED <<bp_event_type, bp_sub_type>>
    /\ UNCHANGED <<aggVars, handlerVars>>

LookupNext == Lookup
SpecLookup == LookupInit /\ [][LookupNext]_vars

(***************************************************************************)
(* lambda_handler, lines 210-316.  A JSON value carries its type; a text   *)
(* returned by the agent is a sequence over a small alphabet: the braces,  *)
(* "m" for a complete member with a scalar value, "k" for a key that       *)
(* awaits an object, "x" for any other character.                          *)
(***************************************************************************)
JNull == [type |-> "null"]
JStr(str) == [type |-> "str", val |-> str]
JNum(n) == [type |-> "num", val |-> n]
JDict(d) == [type |-> "dict", val |-> d]
JList(l) == [type |-> "list", val |-> l]
EmptyDict == [k \in {} |-> k]

\* A test that lets every value but None pass.
IsNotNone(v) == v.type # "null"

\* truthiness of a JSON value
Truthy(v) ==
    CASE v.type = "null" -> FALSE
      [] v.type = "str" -> v.val # ""
      [] v.type = "num" -> v.val # 0
      [] v.type = "dict" -> DOMAIN v.val # {}
      [] v.type = "list" -> v.val # <<>>

\* v.get(key, default): only a dict has get.
HasGet(v) == v.type = "dict"
JGet(v, key, default) == IF key \in DOMAIN v.val THEN v.val[key] ELSE default

\* f"{value}"
Format(v) == IF v.type = "null" THEN JStr("None") ELSE v

\* The exception classes that occur; all derive from Exception.
AgentErrors == {"ThrottlingException", "ReadTimeoutError"}
Exceptions == AgentErrors \cup {"AttributeError", "JSONDecodeError"}

\* An except clause that covers the agent's errors only.
CaughtAgentErrorsOnly(e) == e \in AgentErrors

\* line 309: except Exception
Caught(e) == e \in Exceptions

\* lines 227-232, 241-246, 304-307, 311-316: the dict returned
Response(statusCode, body) == [statusCode |-> statusCode, body |-> body]

\* lines 292-302
FallbackRecommendation ==
    [recommendations |->
        [general |-> <<"Stay informed through official channels",
                       "Follow instructions from authorities">>,
         specific |-> <<>>],
     priorityLevel |-> "medium",
     timeframe |-> "immediate",
     confidenceScore |-> [num |-> 1, den |-> 2],
     sources |-> <<"System generated recommendations">>]

\* lines 249-277: the fields the template embeds.
BuildPrompt(alert) ==
    [Type |-> Format(JGet(alert, "eventType", JNull)),
     SubType |-> Format(JGet(alert, "subType", JStr("N/A"))),
     Severity |-> Format(JGet(alert, "severity", JStr("Unknown"))),
     Headline |-> Format(JGet(alert, "headline", JStr("N/A"))),
     Description |-> Format(JGet(alert, "description", JStr("N/A"))),
     Location |-> JGet(alert, "location", JDict(EmptyDict)),
     AffectedAreas |-> JGet(alert, "affectedAreas", JList(<<>>))]

\* str.find and str.rfind, 0-based, -1 when the character is absent
Find(text, ch) ==
    IF \E i \in DOMAIN text : text[i] = ch
    THEN (CHOOSE i \in DOMAIN text :
             text[i] = ch /\ \A j \in DOMAIN text : text[j] = ch => i <= j) - 1
    ELSE -1
RFind(text, ch) ==
    IF \E i \in DOMAIN text : text[i] = ch
    THEN (CHOOSE i \in DOMAIN text :
             text[i] = ch /\ \A j \in DOMAIN text : text[j] = ch => j <= i) - 1
    ELSE -1

\* text[start:end] for 0 <= start < end
Slice(text, start, end) == SubSeq(text, start + 1, end)

\* json.loads: the position after the object that starts at i, 0 if none does.
RECURSIVE ParseObject(_, _)
RECURSIVE ParseMembers(_, _)
ParseObject(text, i) ==
    IF i <= Len(text) /\ text[i] = "{" THEN ParseMembers(text, i + 1) ELSE 0
ParseMembers(text, i) ==
    IF i > Len(text) THEN 0
    ELSE CASE text[i] = "}" -> i + 1
           [] text[i] = "m" -> ParseMembers(text, i + 1)
           [] text[i] = "k" ->
                LET j == ParseObject(text, i + 1)
                IN  IF j = 0 THEN 0 ELSE ParseMembers(text, j)
           [] OTHER -> 0

\* json.loads(text) succeeds
Loads(text) == ParseObject(text, 1) = Len(text) + 1

\* lines 283-302: the recommendations, or the exception of json.loads
Extract(message_text) ==
    LET json_start == Find(message_text, "{")
        json_end == RFind(message_text, "}") + 1
    IN  IF json_start >= 0 /\ json_end > json_start
        THEN IF Loads(Slice(message_text, json_start, json_end))
             THEN [ok |-> TRUE,
                   value |-> [json |-> Slice(message_text, json_start, json_end)]]
             ELSE [ok |-> FALSE, error |-> "JSONDecodeError"]
        ELSE [ok |-> TRUE, value |-> FallbackRecommendation]

\* Inputs of the handler.
HurricaneAlert ==
    JDict([eventType |-> JStr("weather"),
           subType |-> JStr("hurricane"),
           severity |-> JNum(8),
           headline |-> JStr("Hurricane Warning for Coastal Areas"),
           description |-> JStr("Category 3 hurricane approaching"),
           location |-> JDict([lat |-> JNum(25), lng |-> JNum(-80)]),
           affectedAreas |-> JList(<<JDict([areaId |-> JStr("area-123"),
                                            areaName |-> JStr("Miami-Dade County"),
                                            areaType |-> JStr("county")])>>)])
EarthquakeAlert == JDict([eventType |-> JStr("earthquake")])
HistoricalAlerts ==
    JList(<<JDict([eventType |-> JStr("weather"), severity |-> JNum(7)])>>)

ContextInputs ==
    { JNull,
      JDict(EmptyDict),
      JDict([currentAlert |-> JNull]),
      JDict([currentAlert |-> JDict(EmptyDict)]),
      JDict([currentAlert |-> JStr("storm")]),
      JDict([currentAlert |-> HurricaneAlert]),
      JDict([currentAlert |-> EarthquakeAlert]),
      JDict([currentAlert |-> HurricaneAlert, historicalAlerts |-> HistoricalAlerts]) }

ActionInputs == {JStr("foo"), JStr("generateRecommendations")}

MakeEvent(action, context) ==
    JDict([k \in ({"action" : x \in action} \cup {"context" : x \in context}) |->
             IF k = "action" THEN CHOOSE x \in action : TRUE
             ELSE CHOOSE x \in context : TRUE])

EventInputs ==
    {MakeEvent(a, c) : a \in Optional(ActionInputs), c \in Optional(ContextInputs)}

ReplyAlphabet == {"{", "}", "m", "k", "x"}
Replies(n) == SeqsUpTo(ReplyAlphabet, n)

\* `return`: the invocation ends with a response.
Return(c, r) ==
    /\ response' = [response EXCEPT ![c] = Append(@, r)]
    /\ h_pc' = [h_pc EXCEPT ![c] = "done"]

\* An exception raised inside the try block, lines 309-316.
Raise(c, e) ==
    IF Caught(e)
    THEN Return(c, Response(500, [error |->
             <<"Failed to generate recommendations: ", e>>]))
    ELSE /\ h_pc' = [h_pc EXCEPT ![c] = "escaped"]
         /\ UNCHANGED response

\* line 210: the runtime calls lambda_handler(event, context).
Receive(c) ==
    /\ h_pc[c] = "idle"
    /\ \E ev \in EventInputs : event' = [event EXCEPT ![c] = ev]
    /\ h_pc' = [h_pc EXCEPT ![c] = "check_action"]
    /\ UNCHANGED <<current_alert, prompt, outcome, response, steps, agent_input>>
    /\ UNCHANGED <<aggVars, lookupVars>>

\* A check that accepts any action that is a string.
AnyStringAction(action) == action.type = "str"

\* line 226: action == "generateRecommendations"
SupportedAction(action) ==
    action.type = "str" /\ action.val = "generateRecommendations"

\* lines 222-232
CheckAction(c) ==
    /\ h_pc[c] = "check_action"
    /\ steps' = [steps EXCEPT ![c] = Append(@, "action_checked")]
    /\ LET action == JGet(event[c], "action", JNull)
       IN  IF ~SupportedAction(action)
           THEN Return(c, Response(400, [error |->
                    <<"Unsupported action: ", Format(action).val>>]))
           ELSE /\ h_pc' = [h_pc EXCEPT ![c] = "check_alert"]
                /\ UNCHANGED response
    /\ UNCHANGED <<event, current_alert, prompt, outcome, agent_input>>
    /\ UNCHANGED <<aggVars, lookupVars>>

\* lines 235-246
CheckAlert(c) ==
    /\ h_pc[c] = "check_alert"
    /\ LET context_data == JGet(event[c], "context", JDict(EmptyDict))
       IN  IF ~HasGet(context_data)
           THEN /\ Raise(c, "AttributeError")
                /\ UNCHANGED <<current_alert, steps>>
           ELSE /\ current_alert' = [current_alert EXCEPT ![c] =
                       JGet(context_data, "currentAlert", JDict(EmptyDict))]
                /\ steps' = [steps EXCEPT ![c] = Append(@, "alert_checked")]
                /\ IF ~Truthy(current_alert'[c])
                   THEN Return(c, Response(400, [error |->
                            <<"Current alert data is required">>]))
                   ELSE /\ h_pc' = [h_pc EXCEPT ![c] = "build_prompt"]
                        /\ UNCHANGED response
    /\ UNCHANGED <<event, prompt, outcome, agent_input>>
    /\ UNCHANGED <<aggVars, lookupVars>>

\* An alert read from whichever invocation is further along.
SharedPromptSource(c) ==
    LET others == {d \in Calls \ {c} : h_pc[d] \in {"call_agent", "extract", "done"}}
    IN  IF others # {} THEN current_alert[CHOOSE d \in others : TRUE]
        ELSE current_alert[c]

\* lines 253-259: the alert the template reads is the local current_alert.
PromptSource(c) == current_alert[c]

\* lines 249-277
BuildPromptStep(c) ==
    /\ h_pc[c] = "build_prompt"
    /\ IF ~HasGet(PromptSource(c))
       THEN /\ Raise(c, "AttributeError")
            /\ UNCHANGED prompt
       ELSE /\ prompt' = [prompt EXCEPT ![c] = BuildPrompt(PromptSource(c))]
            /\ h_pc' = [h_pc EXCEPT ![c] = "call_agent"]
            /\ UNCHANGED response
    /\ UNCHANGED <<event, current_alert, outcome, steps, agent_input>>
    /\ UNCHANGED <<aggVars, lookupVars>>

\* line 280: the agent returns a text or raises.
CallAgent(c, maxLen) ==
    /\ h_pc[c] = "call_agent"
    /\ steps' = [steps EXCEPT ![c] = Append(@, "agent_called")]
    /\ agent_input' = [agent_input EXCEPT ![c] = Append(@, prompt[c])]
    /\ \/ \E text \in Replies(maxLen) :
             /\ outcome' = [outcome EXCEPT ![c] = [type |-> "text", val |-> text]]
             /\ h_pc' = [h_pc EXCEPT ![c] = "extract"]
             /\ UNCHANGED response
       \/ \E e \in AgentErrors :
             /\ outcome' = [outcome EXCEPT ![c] = [type |-> "raised", val |-> e]]
             /\ Raise(c, e)
    /\ UNCHANGED <<event, current_alert, prompt>>
    /\ UNCHANGED <<aggVars, lookupVars>>

\* lines 283-307
ExtractStep(c) ==
    /\ h_pc[c] = "extract"
    /\ LET recommendations == Extract(outcome[c].val)
       IN  IF recommendations.ok
           THEN Return(c, Response(200, recommendations.value))
           ELSE Raise(c, recommendations.error)
    /\ UNCHANGED <<event, current_alert, prompt, outcome, steps, agent_input>>
    /\ UNCHANGED <<aggVars, lookupVars>>

\* The invocation is over; its locals are gone and the runtime may call again.
Finish(c) ==
    /\ h_pc[c] = "done"
    /\ h_pc' = [h_pc EXCEPT ![c] = "idle"]
    /\ event' = [event EXCEPT ![c] = Unset]
    /\ current_alert' = [current_alert EXCEPT ![c] = Unset]
    /\ prompt' = [prompt EXCEPT ![c] = Unset]
    /\ outcome' = [outcome EXCEPT ![c] = Unset]
    /\ response' = [response EXCEPT ![c] = <<>>]
    /\ steps' = [steps EXCEPT ![c] = <<>>]
    /\ agent_input' = [agent_input EXCEPT ![c] = <<>>]
    /\ UNCHANGED <<aggVars, lookupVars>>

\* One invocation after the other.
Next ==
    \/ Receive("call_1")
    \/ CheckAction("call_1")
    \/ CheckAlert("call_1")
    \/ BuildPromptStep("call_1")
    \/ CallAgent("call_1", MaxReplyLen)
    \/ ExtractStep("call_1")
    \/ Finish("call_1")
Spec == Init /\ [][Next]_vars

\* Invocations that overlap.
ConcurrentNext ==
    \E c \in Calls :
        \/ Receive(c)
        \/ CheckAction(c)
        \/ CheckAlert(c)
        \/ BuildPromptStep(c)
        \/ CallAgent(c, MaxConcurrentReplyLen)
        \/ ExtractStep(c)
        \/ Finish(c)
SpecConcurrent == Init /\ [][ConcurrentNext]_vars

(***************************************************************************)
(* What the input says, computed from the input alone.                     *)
(***************************************************************************)
TypeOf(a) == IF "eventType" \in DOMAIN a THEN a.eventType ELSE "unknown"

PartitionOf(as, t) == SelectSeq(as, LAMBDA a : TypeOf(a) = t)

TypesOf(as) == {TypeOf(as[i]) : i \in DOMAIN as}

RECURSIVE MentionsOf(_)
MentionsOf(as) ==
    IF as = <<>> THEN <<>>
    ELSE (IF "effectiveActions" \in DOMAIN Head(as)
          THEN Head(as).effectiveActions ELSE <<>>) \o MentionsOf(Tail(as))

Occurrences(m, a) == Cardinality({i \in DOMAIN m : m[i] = a})

DistinctOf(m) == {m[i] : i \in DOMAIN m}

FirstPos(m, a) == CHOOSE i \in DOMAIN m :
                     m[i] = a /\ \A j \in DOMAIN m : m[j] = a => i <= j

EmittedFor(result, t) ==
    SelectSeq(result.effective_actions, LAMBDA e : e.eventType = t)

PatternsFor(result, t) ==
    SelectSeq(result.patterns, LAMBDA q : q.eventType = t)

Min(a, b) == IF a <= b THEN a ELSE b

(* C5: every EffectiveAction emitted has frequency equal to the number of   *)
(* occurrences of its action string in its eventType partition and          *)
(* confidence equal to min(count / partition_size, 0.95), so never above    *)
(* 0.95, also when count exceeds the partition size.                        *)
ConfidenceIsCappedRatio ==
    agg_pc = "analyzed" =>
        \A i \in DOMAIN agg_result.effective_actions :
            LET e == agg_result.effective_actions[i]
                part == PartitionOf(alerts, e.eventType)
                n == Len(part)
                c == Occurrences(MentionsOf(part), e.action)
            IN  /\ n > 0 /\ c > 0
                /\ e.frequency = c
                /\ e.confidence.den > 0
                /\ e.confidence.num * 20 <= 19 * e.confidence.den
                /\ (c * 20 <= 19 * n => e.confidence.num * n = c * e.confidence.den)
                /\ (c * 20 > 19 * n => e.confidence.num * 20 = 19 * e.confidence.den)

\* An action was emitted whose count exceeds the size of its partition, next
\* to one below the cap.
CountAbovePartitionSize ==
    /\ agg_pc = "analyzed"
    /\ \E i \in DOMAIN agg_result.effective_actions :
          LET e == agg_result.effective_actions[i]
          IN  /\ e.frequency > Len(PartitionOf(alerts, e.eventType))
              /\ e.confidence = [num |-> 19, den |-> 20]
    /\ \E i \in DOMAIN agg_result.effective_actions :
          LET e == agg_result.effective_actions[i]
          IN  e.confidence = [num |-> 1, den |-> 2]

(* C6: per event type the aggregator emits exactly min(3, number of         *)
(* distinct action strings) entries, in descending frequency, they are the  *)
(* most frequent actions of the partition, and equal counts are ordered and *)
(* selected by first encounter in the input.                                *)
TopThreeStable ==
    agg_pc = "analyzed" =>
        /\ \A i \in DOMAIN agg_result.effective_actions :
              agg_result.effective_actions[i].eventType \in TypesOf(alerts)
        /\ \A t \in TypesOf(alerts) :
              LET m == MentionsOf(PartitionOf(alerts, t))
                  E == EmittedFor(agg_result, t)
                  chosen == {E[i].action : i \in DOMAIN E}
              IN  /\ Len(E) = Min(3, Cardinality(DistinctOf(m)))
                  /\ Cardinality(chosen) = Len(E)
                  /\ chosen \subseteq DistinctOf(m)
                  /\ \A i \in DOMAIN E : E[i].frequency = Occurrences(m, E[i].action)
                  /\ \A i, j \in DOMAIN E :
                        i < j =>
                          /\ E[i].frequency >= E[j].frequency
                          /\ (E[i].frequency = E[j].frequency =>
                                FirstPos(m, E[i].action) < FirstPos(m, E[j].action))
                  /\ \A a \in DistinctOf(m) \ chosen : \A i \in DOMAIN E :
                        /\ Occurrences(m, a) <= E[i].frequency
                        /\ (Occurrences(m, a) = E[i].frequency =>
                              FirstPos(m, E[i].action) < FirstPos(m, a))

\* Four distinct actions tie in one partition and the fourth encountered is
\* the one left out, although it is not the last in name order.
TieAtTheCutoff ==
    /\ agg_pc = "analyzed"
    /\ \E t \in TypesOf(alerts) :
          LET m == MentionsOf(PartitionOf(alerts, t))
              E == EmittedFor(agg_result, t)
          IN  /\ Len(PartitionOf(alerts, t)) = 2
              /\ Cardinality(DistinctOf(m)) = 4
              /\ Len(E) = 3
              /\ \A a \in DistinctOf(m) : Occurrences(m, a) = 1
              /\ m[4] = "evacuate"
              /\ \A i \in DOMAIN E : E[i].action # "evacuate"

RECURSIVE SumOfPresentSeverities(_)
SumOfPresentSeverities(as) ==
    IF as = <<>> THEN 0
    ELSE (IF "severity" \in DOMAIN Head(as) THEN Head(as).severity ELSE 0)
         + SumOfPresentSeverities(Tail(as))

NumberOfPresentSeverities(as) ==
    Cardinality({i \in DOMAIN as : "severity" \in DOMAIN as[i]})

(* C7 as written: no PatternSummary for a partition of fewer than 3         *)
(* records, exactly one for a partition of 3 or more, with count equal to   *)
(* the partition size and averageSeverity equal to the arithmetic mean of   *)
(* the severities that are present; empty input gives two empty lists.      *)
AverageIsMeanOfPresentSeverities ==
    agg_pc = "analyzed" =>
        /\ (alerts = <<>> =>
              agg_result = [patterns |-> <<>>, effective_actions |-> <<>>])
        /\ \A t \in TypesOf(alerts) :
              LET part == PartitionOf(alerts, t)
                  P == PatternsFor(agg_result, t)
              IN  /\ (Len(part) < 3 => P = <<>>)
                  /\ (Len(part) >= 3 =>
                        /\ Len(P) = 1
                        /\ P[1].count = Len(part)
                        /\ (NumberOfPresentSeverities(part) > 0 =>
                              P[1].averageSeverity.num * NumberOfPresentSeverities(part)
                                = SumOfPresentSeverities(part) * P[1].averageSeverity.den))

(* C7 as amended: as above, but averageSeverity is the sum of the present   *)
(* severities divided by the partition size (an absent severity counts as   *)
(* 0), and there is no PatternSummary for any other event type.             *)
AverageCountsAbsentSeverityAsZero ==
    agg_pc = "analyzed" =>
        /\ (alerts = <<>> =>
              agg_result = [patterns |-> <<>>, effective_actions |-> <<>>])
        /\ \A i \in DOMAIN agg_result.patterns :
              agg_result.patterns[i].eventType \in TypesOf(alerts)
        /\ \A t \in TypesOf(alerts) :
              LET part == PartitionOf(alerts, t)
                  P == PatternsFor(agg_result, t)
              IN  /\ (Len(part) < 3 => P = <<>>)
                  /\ (Len(part) >= 3 =>
                        /\ Len(P) = 1
                        /\ P[1].count = Len(part)
                        /\ P[1].averageSeverity.den > 0
                        /\ P[1].averageSeverity.num * Len(part)
                             = SumOfPresentSeverities(part) * P[1].averageSeverity.den)

\* A partition of 3 records, one of them without a severity and without an
\* eventType, got its PatternSummary next to a partition of 1 that got none.
PatternWithAbsentSeverity ==
    /\ agg_pc = "analyzed"
    /\ Len(agg_result.patterns) = 1
    /\ Cardinality(TypesOf(alerts)) = 2
    /\ LET part == PartitionOf(alerts, agg_result.patterns[1].eventType)
       IN  /\ Len(part) = 3
           /\ NumberOfPresentSeverities(part) = 2
           /\ SumOfPresentSeverities(part) = 8
           /\ agg_result.patterns[1].eventType = "unknown"
           /\ \E i \in DOMAIN part : "eventType" \notin DOMAIN part[i]
           /\ \E i \in DOMAIN part : "eventType" \in DOMAIN part[i]

AsSet(seq) == {seq[i] : i \in DOMAIN seq}

(* C9 as written: for every permutation of the input the set of             *)
(* PatternSummary entries and the set of EffectiveAction entries are the    *)
(* same.                                                                    *)
OrderIrrelevant ==
    agg_pc = "permuted" =>
        /\ AsSet(perm_result.patterns) = AsSet(agg_result.patterns)
        /\ AsSet(perm_result.effective_actions) = AsSet(agg_result.effective_actions)

(* C9 as amended: for every permutation of the input the set of             *)
(* PatternSummary entries is the same, and so is the set of                 *)
(* EffectiveAction entries of every event type whose partition mentions at  *)
(* most 3 distinct action strings.                                          *)
OrderIrrelevantUpToThreeActions ==
    agg_pc = "permuted" =>
        /\ AsSet(perm_result.patterns) = AsSet(agg_result.patterns)
        /\ \A t \in TypesOf(alerts) :
              Cardinality(DistinctOf(MentionsOf(PartitionOf(alerts, t)))) <= 3 =>
                  AsSet(EmittedFor(perm_result, t)) = AsSet(EmittedFor(agg_result, t))

\* A reordering of three records of one type changed the order of the emitted
\* entries, not their set, and the PatternSummary stayed.
ReorderedSameSet ==
    /\ agg_pc = "permuted"
    /\ perm_alerts # alerts
    /\ Len(agg_result.patterns) = 1
    /\ agg_result.patterns[1].averageSeverity.num = 12
    /\ Len(agg_result.effective_actions) = 3
    /\ perm_result.effective_actions # agg_result.effective_actions
    /\ AsSet(perm_result.effective_actions) = AsSet(agg_result.effective_actions)

\* The entries of the table: event type, sub-type, list.
TableEntries ==
    { <<Str_weather, Str_hurricane, HurricanePractices>>,
      <<Str_weather, Str_tornado, TornadoPractices>>,
      <<Str_weather, Str_flood, FloodPractices>>,
      <<Str_weather, Str_default, WeatherDefaultPractices>>,
      <<Str_earthquake, Str_default, EarthquakeDefaultPractices>>,
      <<Str_health, Str_epidemic, EpidemicPractices>>,
      <<Str_health, Str_default, HealthDefaultPractices>>,
      <<Str_security, Str_default, SecurityDefaultPractices>> }

SameLetter(c, d) ==
    \/ c = d
    \/ c \in DOMAIN UpperToLower /\ UpperToLower[c] = d
    \/ d \in DOMAIN UpperToLower /\ UpperToLower[d] = c

SameIgnoringCase(a, b) ==
    /\ Len(a) = Len(b)
    /\ \A i \in DOMAIN a : SameLetter(a[i], b[i])

ResolvedPractices(et, sub) ==
    LET exact == {e \in TableEntries :
                     /\ SameIgnoringCase(e[1], et)
                     /\ \E x \in sub : SameIgnoringCase(e[2], x)}
        fallback == {e \in TableEntries :
                        SameIgnoringCase(e[1], et) /\ e[2] = Str_default}
    IN  IF exact # {} THEN (CHOOSE e \in exact : TRUE)[3]
        ELSE IF fallback # {} THEN (CHOOSE e \in fallback : TRUE)[3]
        ELSE DefaultPractices

(* C8: for every string eventType and optional subType the lookup never     *)
(* fails and returns a non-empty list: that of the entry matching both keys *)
(* ignoring case, else that of the event type's "default" entry, else the   *)
(* global default list.                                                     *)
LookupResolutionOrder ==
    practices # Pending =>
        /\ practices.ok
        /\ Len(practices.value) > 0
        /\ practices.value = ResolvedPractices(bp_event_type, bp_sub_type)

\* "WEATHER" with "Hurricane" got the hurricane list.
MixedCaseExactMatch ==
    /\ practices # Pending
    /\ bp_event_type = upper(Str_weather)
    /\ bp_event_type # Str_weather
    /\ bp_sub_type = {capitalize(Str_hurricane)}
    /\ practices.ok
    /\ practices.value = HurricanePractices

(***************************************************************************)
(* What the event and the agent's reply say, read from them directly.      *)
(***************************************************************************)
ActionIsGenerate(ev) ==
    /\ "action" \in DOMAIN ev.val
    /\ ev.val.action = JStr("generateRecommendations")

ReceivedActionName(ev) ==
    IF "action" \in DOMAIN ev.val THEN ev.val.action.val ELSE "None"

\* The context is missing, has no currentAlert, or has an empty currentAlert.
AlertMissingOrEmpty(ev) ==
    \/ "context" \notin DOMAIN ev.val
    \/ /\ ev.val.context.type = "dict"
       /\ \/ "currentAlert" \notin DOMAIN ev.val.context.val
          \/ ev.val.context.val.currentAlert = JDict(EmptyDict)

\* The event carries a currentAlert that is a non-empty dict.
AlertPresent(ev) ==
    /\ "context" \in DOMAIN ev.val
    /\ ev.val.context.type = "dict"
    /\ "currentAlert" \in DOMAIN ev.val.context.val
    /\ ev.val.context.val.currentAlert.type = "dict"
    /\ DOMAIN ev.val.context.val.currentAlert.val # {}

\* The text holds a JSON object from its first "{" to its last "}".
HasParseableObject(text) ==
    \E i, j \in DOMAIN text :
        /\ i < j
        /\ text[i] = "{" /\ \A k \in 1..(i - 1) : text[k] # "{"
        /\ text[j] = "}" /\ \A k \in (j + 1)..Len(text) : text[k] # "}"
        /\ Loads(SubSeq(text, i, j))

InFlight(c) == h_pc[c] # "idle"

(* C1: when the call passed validation and the agent returned a text that   *)
(* holds no parseable JSON object (no braces, or the substring from the     *)
(* first "{" to the last "}" is not valid JSON), the handler returns 200    *)
(* with the fixed fallback Recommendation, never a 500.                     *)
FallbackOnUnparseableReply ==
    \A c \in Calls :
        (h_pc[c] = "done" /\ outcome[c].type = "text"
           /\ ~HasParseableObject(outcome[c].val)) =>
            response[c] = <<Response(200, FallbackRecommendation)>>

(* C2: an event whose action is not "generateRecommendations" (or is        *)
(* absent) gets statusCode 400 with a message naming the received action,   *)
(* and the agent is never invoked during the call, whatever the context.    *)
UnsupportedActionRejected ==
    \A c \in Calls :
        (InFlight(c) /\ ~ActionIsGenerate(event[c])) =>
            /\ agent_input[c] = <<>>
            /\ outcome[c] = Unset
            /\ \A i \in DOMAIN steps[c] : steps[c][i] = "action_checked"
            /\ (h_pc[c] = "done" =>
                  response[c] = <<Response(400, [error |->
                      <<"Unsupported action: ", ReceivedActionName(event[c])>>])>>)
            /\ h_pc[c] \in {"check_action", "done"}

\* Action "foo" was rejected although the context carries a complete alert.
FooRejectedDespiteAlert ==
    \E c \in Calls :
        /\ h_pc[c] = "done"
        /\ ReceivedActionName(event[c]) = "foo"
        /\ AlertPresent(event[c])
        /\ response[c][1].statusCode = 400
        /\ response[c][1].body.error[2] = "foo"

(* C3: with action "generateRecommendations" and a context that is missing, *)
(* has no currentAlert or has an empty one, the handler returns 400 with an *)
(* {error} body and never invokes the agent; the action check precedes the  *)
(* currentAlert check and the agent is invoked only after both passed.      *)
MissingAlertRejected ==
    \A c \in Calls :
        /\ (InFlight(c) /\ ActionIsGenerate(event[c]) /\ AlertMissingOrEmpty(event[c])) =>
              /\ agent_input[c] = <<>>
              /\ outcome[c] = Unset
              /\ \A i \in DOMAIN steps[c] : steps[c][i] # "agent_called"
              /\ (h_pc[c] = "done" =>
                    response[c] = <<Response(400, [error |->
                        <<"Current alert data is required">>])>>)
              /\ h_pc[c] \in {"check_action", "check_alert", "done"}
        /\ \A i \in DOMAIN steps[c] :
              steps[c][i] = "alert_checked" =>
                  \E j \in 1..(i - 1) : steps[c][j] = "action_checked"
        /\ \A i \in DOMAIN steps[c] :
              steps[c][i] = "agent_called" =>
                  /\ \E j \in 1..(i - 1) : steps[c][j] = "action_checked"
                  /\ \E j \in 1..(i - 1) : steps[c][j] = "alert_checked"
                  /\ ActionIsGenerate(event[c])
                  /\ AlertPresent(event[c])

\* An empty currentAlert was rejected after both checks ran.
EmptyAlertRejected ==
    \E c \in Calls :
        /\ h_pc[c] = "done"
        /\ ActionIsGenerate(event[c])
        /\ "context" \in DOMAIN event[c].val
        /\ event[c].val.context = JDict([currentAlert |-> JDict(EmptyDict)])
        /\ steps[c] = <<"action_checked", "alert_checked">>
        /\ response[c][1].statusCode = 400

(* C4: when the agent raises, the handler returns 500 with an {error} body  *)
(* wrapping the message and does not retry: the agent is invoked at most    *)
(* once per call, every call ends with exactly one response whose           *)
(* statusCode is 200, 400 or 500, and no exception escapes.                 *)
SingleResponseNoRetry ==
    \A c \in Calls :
        /\ h_pc[c] # "escaped"
        /\ Len(agent_input[c]) <= 1
        /\ Cardinality({i \in DOMAIN steps[c] : steps[c][i] = "agent_called"}) <= 1
        /\ (h_pc[c] = "done" =>
              /\ Len(response[c]) = 1
              /\ response[c][1].statusCode \in {200, 400, 500})
        /\ (h_pc[c] # "done" => response[c] = <<>>)
        /\ (outcome[c].type = "raised" =>
              /\ h_pc[c] = "done"
              /\ Len(agent_input[c]) = 1
              /\ response[c] = <<Response(500, [error |->
                     <<"Failed to generate recommendations: ", outcome[c].val>>])>>)

\* The agent raised and the call ended with its one 500.
AgentFailureSurfaced ==
    \E c \in Calls :
        /\ h_pc[c] = "done"
        /\ outcome[c] = [type |-> "raised", val |-> "ThrottlingException"]
        /\ steps[c] = <<"action_checked", "alert_checked", "agent_called">>
        /\ response[c][1].statusCode = 500

=============================================================================
